---- MODULE Spec2Model ----
(***************************************************************************)
(* Model of pkg/builders/s2i/builder.go: Builder.Build, s2iScriptURL and   *)
(* the archive goroutine that streams the build directory through an       *)
(* io.Pipe to DockerClient.ImageBuild.                                     *)
(*                                                                         *)
(* Paths and link targets are sequences of one-character strings, so that  *)
(* the exclusion regular expression, filepath.Rel and strings.HasPrefix    *)
(* are computed on characters as the code computes them.                   *)
(***************************************************************************)
EXTENDS Integers, Sequences, FiniteSets, TLC

\* ------------------------------------------------------------------------
\* Bounds of the model
\* ------------------------------------------------------------------------

\* Largest number of platforms a caller passes to Build.
MaxPlatforms == 2

\* Largest number of events in the backend's progress stream.
MaxEvents == 2

\* ------------------------------------------------------------------------
\* Characters and strings
\* ------------------------------------------------------------------------

\* Byte value of a character (byte-wise comparison of names in filepath.Walk).
Ord(c) ==
  CASE c = "." -> 46 [] c = "/" -> 47 [] c = "D" -> 68 [] c = "_" -> 95
    [] c = "a" -> 97 [] c = "b" -> 98 [] c = "c" -> 99 [] c = "d" -> 100
    [] c = "e" -> 101 [] c = "f" -> 102 [] c = "g" -> 103 [] c = "i" -> 105
    [] c = "j" -> 106 [] c = "k" -> 107 [] c = "l" -> 108 [] c = "m" -> 109
    [] c = "n" -> 110 [] c = "o" -> 111 [] c = "p" -> 112 [] c = "r" -> 114
    [] c = "s" -> 115 [] c = "t" -> 116 [] c = "u" -> 117 [] c = "v" -> 118
    [] c = "x" -> 120 [] c = "y" -> 121

\* a < b, byte-wise (sort.Strings on the names of a directory).
RECURSIVE StrLess(_, _)
StrLess(a, b) ==
  IF b = <<>> THEN FALSE
  ELSE IF a = <<>> THEN TRUE
  ELSE IF Head(a) = Head(b) THEN StrLess(Tail(a), Tail(b))
  ELSE Ord(Head(a)) < Ord(Head(b))

\* The literal lit occurs in s at position i (1-based).
HasAt(s, i, lit) ==
  /\ i >= 1
  /\ i + Len(lit) - 1 <= Len(s)
  /\ SubSeq(s, i, i + Len(lit) - 1) = lit

\* strings.HasPrefix
HasPrefix(s, prefix) == HasAt(s, 1, prefix)

\* strings.Join(segs, "/") and filepath.ToSlash of the result.
Join[segs \in Seq(Seq(STRING))] ==
  IF segs = <<>> THEN <<>>
  ELSE IF Len(segs) = 1 THEN segs[1]
  ELSE segs[1] \o <<"/">> \o Join[Tail(segs)]

\* The segments of a slash-separated string; empty segments are dropped.
SplitFrom[s \in Seq(STRING), i \in Nat, cur \in Seq(STRING)] ==
  IF i > Len(s) THEN (IF cur = <<>> THEN <<>> ELSE <<cur>>)
  ELSE IF s[i] = "/"
       THEN (IF cur = <<>> THEN <<>> ELSE <<cur>>) \o SplitFrom[s, i + 1, <<>>]
       ELSE SplitFrom[s, i + 1, Append(cur, s[i])]

Split(s) == SplitFrom[s, 1, <<>>]

DotDot == <<".", ".">>
Dot == <<".">>

\* filepath.IsAbs on a Unix host.
IsAbs(s) == s # <<>> /\ s[1] = "/"

\* filepath.Clean of an absolute path, as its segments: "." is dropped and
\* ".." removes the segment before it (at the root it is dropped).
CleanSegs[segs \in Seq(Seq(STRING)), acc \in Seq(Seq(STRING))] ==
  IF segs = <<>> THEN acc
  ELSE IF Head(segs) = Dot THEN CleanSegs[Tail(segs), acc]
  ELSE IF Head(segs) = DotDot
       THEN CleanSegs[Tail(segs),
                      IF acc = <<>> THEN acc ELSE SubSeq(acc, 1, Len(acc) - 1)]
  ELSE CleanSegs[Tail(segs), Append(acc, Head(segs))]

CleanAbs(s) == CleanSegs[Split(s), <<>>]

\* Length of the common prefix of two segment sequences.
CommonLen[a \in Seq(Seq(STRING)), b \in Seq(Seq(STRING))] ==
  IF a = <<>> \/ b = <<>> THEN 0
  ELSE IF Head(a) = Head(b) THEN 1 + CommonLen[Tail(a), Tail(b)]
  ELSE 0

\* filepath.Rel(base, targ) for two absolute paths, as a string: one ".." for
\* every segment of base below the common prefix, then the rest of targ;
\* "." when the two are the same.
RelSegs[b \in Seq(Seq(STRING)), t \in Seq(Seq(STRING))] ==
  LET k == CommonLen[b, t]
  IN [i \in 1..(Len(b) - k) |-> DotDot] \o SubSeq(t, k + 1, Len(t))

Rel(base, targ) ==
  LET segs == RelSegs[CleanAbs(base), CleanAbs(targ)]
  IN IF segs = <<>> THEN Dot ELSE Join[segs]

\* ------------------------------------------------------------------------
\* Exclusion pattern
\* ------------------------------------------------------------------------

L_git == <<".", "g", "i", "t">>
L_env == <<".", "e", "n", "v">>
L_func == <<".", "f", "u", "n", "c">>
L_node_modules == <<"n", "o", "d", "e", "_", "m", "o", "d", "u", "l", "e", "s">>

\* First alternative of ExcludeRegExp: (^|/)\.git
ExcludeAltGit(p) ==
  \E i \in 1..Len(p) :
     /\ HasAt(p, i, L_git)
     /\ (i = 1 \/ p[i - 1] = "/")

\* Second alternative: \.env
ExcludeAltEnv(p) == \E i \in 1..Len(p) : HasAt(p, i, L_env)

\* Third alternative: \.func
ExcludeAltFunc(p) == \E i \in 1..Len(p) : HasAt(p, i, L_func)

\* Fourth alternative: node_modules(/|$)
ExcludeAltNodeModules(p) ==
  \E i \in 1..Len(p) :
     /\ HasAt(p, i, L_node_modules)
     /\ LET j == i + Len(L_node_modules)
        IN j = Len(p) + 1 \/ p[j] = "/"

\* A mutation of the pattern that anchors the last alternative at the end of
\* the path only: node_modules$
ExcludeMatchEndOnly(p) ==
  \/ ExcludeAltGit(p)
  \/ ExcludeAltEnv(p)
  \/ ExcludeAltFunc(p)
  \/ HasAt(p, Len(p) - Len(L_node_modules) + 1, L_node_modules)

\* exclude.MatchString(p) for "(^|/)\\.git|\\.env|\\.func|node_modules(/|$)":
\* an unanchored search, the alternation binding weaker than concatenation.
ExcludeMatch(p) ==
  \/ ExcludeAltGit(p)
  \/ ExcludeAltEnv(p)
  \/ ExcludeAltFunc(p)
  \/ ExcludeAltNodeModules(p)

\* ------------------------------------------------------------------------
\* The build directory the engine leaves behind
\* ------------------------------------------------------------------------

N_git == L_git
N_config == <<"c", "o", "n", "f", "i", "g">>
N_node_modules == L_node_modules
N_xjs == <<"x", ".", "j", "s">>
N_src == <<"s", "r", "c">>
N_env == L_env
N_lnk == <<"l", "n", "k">>
N_Dockerfile == <<"D", "o", "c", "k", "e", "r", "f", "i", "l", "e">>
N_gitignore == <<".", "g", "i", "t", "i", "g", "n", "o", "r", "e">>

\* os.MkdirTemp("", "func-s2i-build"): an absolute directory, here /tmp/b.
TmpDir == <<"/", "t", "m", "p", "/", "b">>

Dir(path) == [path |-> path, kind |-> "dir", lnk |-> <<>>, chunks |-> 0]
File(path, n) == [path |-> path, kind |-> "file", lnk |-> <<>>, chunks |-> n]
Link(path, target) == [path |-> path, kind |-> "link", lnk |-> target, chunks |-> 0]

RootEntry == Dir(<<>>)

\* Link targets, as os.Readlink returns them.
AbsInside == TmpDir \o <<"/">> \o N_xjs
AbsOutside == <<"/", "t", "m", "p", "/", "x">>
AbsParent == <<"/", "t", "m", "p">>
AbsDotDot == TmpDir \o <<"/">> \o N_src \o <<"/", ".", ".", "/", ".", ".", "/", "x">>
RelInside == N_xjs
RelOutside == <<".", ".", "/", "x">>

SrcTree == {RootEntry, Dir(<<N_src>>), File(<<N_src, N_xjs>>, 1)}
LinkTree(target) == {RootEntry, Link(<<N_lnk>>, target), File(<<N_xjs>>, 1)}
DotfileTree == {RootEntry, File(<<N_gitignore>>, 1)}

\* The directories an engine run may leave in the build directory.
Trees ==
  { {RootEntry},
    SrcTree \cup {File(<<N_Dockerfile>>, 2)},
    {RootEntry, File(<<N_Dockerfile>>, 1),
     Dir(<<N_git>>), File(<<N_git, N_config>>, 1),
     Dir(<<N_node_modules>>), File(<<N_node_modules, N_xjs>>, 1),
     Dir(<<N_src>>), File(<<N_src, N_env>>, 1)},
    LinkTree(AbsInside),
    LinkTree(AbsOutside),
    LinkTree(AbsParent),
    LinkTree(AbsDotDot),
    LinkTree(RelInside),
    LinkTree(RelOutside),
    DotfileTree }

Last(s) == s[Len(s)]

\* The entries of a directory, as filepath.Walk reads them.
Children(t, dir) ==
  {e \in t : /\ Len(e.path) = Len(dir) + 1
             /\ SubSeq(e.path, 1, Len(dir)) = dir}

\* The entries of S with the greatest name first.
RECURSIVE SortByNameDescending(_)
SortByNameDescending(S) ==
  IF S = {} THEN <<>>
  ELSE LET m == CHOOSE e \in S :
                  \A o \in S \ {e} : StrLess(Last(o.path), Last(e.path))
       IN <<m>> \o SortByNameDescending(S \ {m})

\* The entries of S by name, in the order of sort.Strings.
RECURSIVE SortByName(_)
SortByName(S) ==
  IF S = {} THEN <<>>
  ELSE LET m == CHOOSE e \in S :
                  \A o \in S \ {e} : StrLess(Last(e.path), Last(o.path))
       IN <<m>> \o SortByName(S \ {m})

\* The order in which filepath.Walk hands the entries below dir to its
\* callback: each entry, a directory followed by its own entries.
RECURSIVE WalkSeq(_, _)
WalkBelow(t, dir) == WalkSeq(t, SortByName(Children(t, dir)))
WalkSeq(t, es) ==
  IF es = <<>> THEN <<>>
  ELSE <<Head(es)>>
       \o (IF Head(es).kind = "dir" THEN WalkBelow(t, Head(es).path) ELSE <<>>)
       \o WalkSeq(t, Tail(es))

\* filepath.Walk(tmp, fn): the root first.
WalkOrder(t) == <<RootEntry>> \o WalkBelow(t, <<>>)

\* The absolute path of an entry.
AbsPath(e) == IF e.path = <<>> THEN TmpDir ELSE TmpDir \o <<"/">> \o Join[e.path]

\* p of the callback: filepath.ToSlash(filepath.Rel(tmp, path)).
RelName(e) == Rel(TmpDir, AbsPath(e))

\* ------------------------------------------------------------------------
\* State
\* ------------------------------------------------------------------------

VARIABLES
  pc,         \* position of Build in its body
  ret,        \* "running", or what Build returned: "nil" or the error
  platforms,  \* len(platforms) of the call
  lookups,    \* calls of docker.GetPlatformImage made by the call
  verbose,    \* b.verbose
  funcignore, \* <f.Root>/.funcignore exists
  s2iignore,  \* <f.Root>/.s2iignore: "absent", "file" (the user's) or "link"
  linkedBefore, \* an earlier Build call created the .s2iignore link
  defers,     \* the deferred calls registered so far
  tmpState,   \* the build directory: "none", "exists", "removed"
  cfg,        \* the api.Config under construction
  meta,       \* what s2iScriptURL met and returned, while scriptURL is live
  calls,      \* how often this Build call reached each collaborator
  tree,       \* the entries of the build directory
  order,      \* the same entries, in the order filepath.Walk visits them
  patched,    \* the Dockerfile of the build directory carries the cache mount
  resp,       \* the progress stream of the ImageBuild response
  relay,      \* what DisplayJSONMessagesStream did with it
  ppc,        \* position of the archive goroutine
  wi,         \* index of the entry filepath.Walk visits next
  wq,         \* writes the tar writer still has to make for the current call
  twPad,      \* the tar writer owes the padding of the last file
  twErr,      \* the tar writer's sticky error is set
  walkErr,    \* what filepath.Walk returned ("nil" until it fails)
  produced,   \* every write handed to the pipe, in order
  pending,    \* the write the pipe holds, <<>> when none
  left,       \* bytes of the pending write not read yet
  werr,       \* error the write side was closed with, "none" while open
  rclosed,    \* the read side was closed
  received,   \* bytes the backend read from the pipe, in order
  cres,       \* "reading", or how the backend's reading ended
  cancelled   \* the context handed to ImageBuild is cancelled

mainVars == <<pc, ret, platforms, lookups, verbose, funcignore, s2iignore,
              linkedBefore, defers, tmpState, cfg, meta, calls, tree, order,
              patched, resp, relay>>
prodVars == <<ppc, wi, wq, twPad, twErr, walkErr, produced>>
pipeVars == <<pending, left, werr, rclosed>>
consVars == <<received, cres, cancelled>>
vars == <<mainVars, prodVars, pipeVars, consVars>>

\* Bytes one pipe write carries; a Read takes between one byte and all of them.
BytesPerWrite == 2

NoErr == "nil"

\* The label io.openshift.s2i.scripts-url: absent, or one of these values.
SentinelURL == "image:///usr/libexec/s2i"
CustomURL == "image:///custom"
Absent == "absent"
LabelValues == {Absent, SentinelURL, CustomURL}

NoMeta == [inspect |-> "none", config |-> Absent, containerConfig |-> Absent,
           parse |-> "none", fetch |-> "none", configFile |-> "none",
           remote |-> Absent, url |-> "", err |-> NoErr, fellBack |-> FALSE,
           fetched |-> FALSE]

NoCalls == [strategy |-> 0, engine |-> 0, engineErr |-> NoErr, imageBuild |-> 0,
            patch |-> 0, link |-> 0, walk |-> 0]

NoCfg == [BuilderImage |-> "", ScriptsURL |-> "", Quiet |-> FALSE,
          PullPolicies |-> "unset"]

NoResp == [events |-> <<>>, end |-> "none"]
NoRelay == [read |-> 0, shown |-> 0, sawEnd |-> FALSE]

\* The state of one Build call before it starts.
FreshCall ==
  /\ pc = "idle"
  /\ ret = "running"
  /\ platforms = 0
  /\ lookups = 0
  /\ verbose = FALSE
  /\ defers = [link |-> FALSE, tmp |-> FALSE]
  /\ tmpState = "none"
  /\ cfg = NoCfg
  /\ meta = NoMeta
  /\ calls = NoCalls
  /\ tree = {}
  /\ order = <<>>
  /\ patched = FALSE
  /\ resp = NoResp
  /\ relay = NoRelay
  /\ ppc = "idle"
  /\ wi = 1
  /\ wq = <<>>
  /\ twPad = FALSE
  /\ twErr = FALSE
  /\ walkErr = NoErr
  /\ produced = <<>>
  /\ pending = <<>>
  /\ left = 0
  /\ werr = "none"
  /\ rclosed = FALSE
  /\ received = <<>>
  /\ cres = "reading"
  /\ cancelled = FALSE

Init ==
  /\ funcignore \in BOOLEAN
  /\ s2iignore \in {"absent", "file"}
  /\ linkedBefore = FALSE
  /\ FreshCall

\* ------------------------------------------------------------------------
\* s2iScriptURL
\* ------------------------------------------------------------------------

\* What the image store and the registry may answer for cfg.BuilderImage.
\* Fields the call never reaches keep their NoMeta value.
ScriptInputs ==
  {[NoMeta EXCEPT !.inspect = "ok", !.config = c, !.containerConfig = cc] :
      c \in LabelValues, cc \in LabelValues}
  \cup {[NoMeta EXCEPT !.inspect = "error"]}
  \cup {[NoMeta EXCEPT !.inspect = "notfound", !.parse = "error"]}
  \cup {[NoMeta EXCEPT !.inspect = "notfound", !.parse = "ok", !.fetch = "error"]}
  \cup {[NoMeta EXCEPT !.inspect = "notfound", !.parse = "ok", !.fetch = "ok",
                       !.configFile = "error"]}
  \cup {[NoMeta EXCEPT !.inspect = "notfound", !.parse = "ok", !.fetch = "ok",
                       !.configFile = "ok", !.remote = r] : r \in LabelValues}

\* The registry path of s2iScriptURL with err declared anew inside the branch,
\* so that the function's last return still sees the "not found" error.
RegistryFallbackShadowed(m) ==
  IF m.parse = "error"
    THEN [url |-> "", err |-> "parse", fetched |-> FALSE]
  ELSE IF m.fetch = "error"
    THEN [url |-> "", err |-> "fetch", fetched |-> TRUE]
  ELSE IF m.configFile = "error"
    THEN [url |-> "", err |-> "config", fetched |-> TRUE]
  ELSE IF m.remote # Absent
    THEN [url |-> m.remote, err |-> NoErr, fetched |-> TRUE]
  ELSE [url |-> "", err |-> "notfound", fetched |-> TRUE]

\* Lines 391-419: the branch taken when the image is not in the daemon. Every
\* call assigns the function's err, so the return that ends the branch gives
\* the error of the last call made: nil once ConfigFile succeeded.
RegistryFallback(m) ==
  IF m.parse = "error"
    THEN [url |-> "", err |-> "parse", fetched |-> FALSE]
  ELSE IF m.fetch = "error"
    THEN [url |-> "", err |-> "fetch", fetched |-> TRUE]
  ELSE IF m.configFile = "error"
    THEN [url |-> "", err |-> "config", fetched |-> TRUE]
  ELSE IF m.remote # Absent
    THEN [url |-> m.remote, err |-> NoErr, fetched |-> TRUE]
  ELSE [url |-> "", err |-> NoErr, fetched |-> TRUE]

\* s2iScriptURL with the registry tried after every failed inspection.
s2iScriptURLAlwaysFallback(m) ==
  IF m.inspect # "ok"
    THEN LET r == RegistryFallback(m)
         IN [m EXCEPT !.url = r.url, !.err = r.err, !.fellBack = TRUE,
                      !.fetched = r.fetched]
  ELSE IF m.config # Absent THEN [m EXCEPT !.url = m.config]
  ELSE IF m.containerConfig # Absent THEN [m EXCEPT !.url = m.containerConfig]
  ELSE m

\* s2iScriptURL(ctx, cli, image): the inputs m, with url and err filled in, and
\* whether the registry branch was entered and remote.Image called.
s2iScriptURL(m) ==
  IF m.inspect # "ok"
    THEN IF m.inspect = "notfound"
           THEN LET r == RegistryFallback(m)
                IN [m EXCEPT !.url = r.url, !.err = r.err, !.fellBack = TRUE,
                             !.fetched = r.fetched]
           ELSE [m EXCEPT !.err = "inspect"]
  ELSE IF m.config # Absent THEN [m EXCEPT !.url = m.config]
  ELSE IF m.containerConfig # Absent THEN [m EXCEPT !.url = m.containerConfig]
  ELSE m

\* ------------------------------------------------------------------------
\* Build: the calling goroutine
\* ------------------------------------------------------------------------

\* A return of Build that forgets the deferred calls when it returns an error.
ReturnCleanOnSuccess(e) ==
  /\ pc' = "returned"
  /\ ret' = e
  /\ tmpState' = IF defers.tmp /\ e = NoErr THEN "removed" ELSE tmpState
  /\ s2iignore' = IF defers.link /\ e = NoErr THEN "absent" ELSE s2iignore

\* A return of Build that removes .s2iignore whether or not this call made it.
ReturnRemovesIgnore(e) ==
  /\ pc' = "returned"
  /\ ret' = e
  /\ tmpState' = IF defers.tmp THEN "removed" ELSE tmpState
  /\ s2iignore' = "absent"

\* A return of Build with result e: the deferred calls run, last registered
\* first: os.RemoveAll(tmp) (line 176), then os.Remove(s2iignorePath) (167).
Return(e) ==
  /\ pc' = "returned"
  /\ ret' = e
  /\ tmpState' = IF defers.tmp THEN "removed" ELSE tmpState
  /\ s2iignore' = IF defers.link THEN "absent" ELSE s2iignore

\* Build goes on to the step at label l.
Goto(l) == pc' = l /\ ret' = ret

\* The check of len(platforms) with the cases in the other order, so that a
\* request for several platforms is let through.
PlatformCheckLax(n, platOK) ==
  IF n = 1 /\ ~platOK THEN "platformImage" ELSE NoErr

\* Lines 132-144: the check of the requested platforms.
PlatformCheck(n, platOK) ==
  IF n = 1 THEN (IF platOK THEN NoErr ELSE "platformImage")
  ELSE IF n > 1 THEN "singlePlatform"
  ELSE NoErr

\* The platform image looked up for every request that passes the check.
PlatformImageAlways(n, image) == "platform-image"

\* Lines 133-140: the builder image after the check of the platforms: for one
\* platform what docker.GetPlatformImage found in the builder image, else the
\* reference as BuilderImage returned it.
PlatformImage(n, image) == IF n = 1 THEN "platform-image" ELSE image

\* Lines 124-144: BuilderImage and the validation of the platforms.
BuildEntry ==
  /\ pc = "idle"
  /\ \E n \in 0..MaxPlatforms, v \in BOOLEAN, imgOK \in BOOLEAN, platOK \in BOOLEAN :
       /\ platforms' = n
       /\ verbose' = v
       /\ lookups' = IF imgOK /\ n = 1 THEN 1 ELSE 0
       /\ IF ~imgOK
            THEN /\ Return("builderImage")
                 /\ cfg' = cfg
            ELSE LET e == PlatformCheck(n, platOK)
                 IN IF e # NoErr
                      THEN /\ Return(e)
                           /\ cfg' = cfg
                      ELSE /\ Goto("client")
                           /\ cfg' = [cfg EXCEPT !.BuilderImage =
                                        PlatformImage(n, "builder-image")]
                           /\ UNCHANGED <<tmpState, s2iignore>>
  /\ UNCHANGED <<funcignore, linkedBefore, defers, meta, calls, tree, order,
                 patched, resp, relay, prodVars, pipeVars, consVars>>

\* Lines 146-155: the Docker client, created when none was injected.
NewClient ==
  /\ pc = "client"
  /\ \E ok \in BOOLEAN :
       IF ok THEN Goto("link") /\ UNCHANGED <<tmpState, s2iignore>>
             ELSE Return("dockerClient")
  /\ UNCHANGED <<platforms, lookups, verbose, funcignore, linkedBefore, defers, cfg,
                 meta, calls, tree, order, patched, resp, relay, prodVars, pipeVars,
                 consVars>>

\* Lines 157-169: .s2iignore -> .funcignore, when only .funcignore exists.
LinkIgnore ==
  /\ pc = "link"
  /\ IF funcignore /\ s2iignore = "absent"
       THEN \E ok \in BOOLEAN :
              IF ok
                THEN /\ s2iignore' = "link"
                     /\ defers' = [defers EXCEPT !.link = TRUE]
                     /\ calls' = [calls EXCEPT !.link = @ + 1]
                     /\ Goto("mktemp")
                     /\ tmpState' = tmpState
                ELSE /\ Return("symlink")
                     /\ UNCHANGED <<defers, calls>>
       ELSE /\ Goto("mktemp")
            /\ UNCHANGED <<s2iignore, defers, calls, tmpState>>
  /\ UNCHANGED <<platforms, lookups, verbose, funcignore, linkedBefore, cfg, meta,
                 tree, order, patched, resp, relay, prodVars, pipeVars, consVars>>

\* Lines 171-176: the temporary build directory.
MkdirTemp ==
  /\ pc = "mktemp"
  /\ \E ok \in BOOLEAN :
       IF ok
         THEN /\ tmpState' = "exists"
              /\ defers' = [defers EXCEPT !.tmp = TRUE]
              /\ Goto("config")
              /\ s2iignore' = s2iignore
         ELSE /\ Return("mkdirTemp")
              /\ defers' = defers
  /\ UNCHANGED <<platforms, lookups, verbose, funcignore, linkedBefore, cfg, meta,
                 calls, tree, order, patched, resp, relay, prodVars, pipeVars, consVars>>

\* Lines 178-197: the build config and the scaffolding.
Configure ==
  /\ pc = "config"
  /\ \E ok \in BOOLEAN :
       IF ok
         THEN /\ cfg' = [cfg EXCEPT !.Quiet = ~verbose, !.PullPolicies = "default"]
              /\ Goto("scripturl")
              /\ UNCHANGED <<tmpState, s2iignore>>
         ELSE /\ Return("scaffold")
              /\ cfg' = cfg
  /\ UNCHANGED <<platforms, lookups, verbose, funcignore, linkedBefore, defers, meta,
                 calls, tree, order, patched, resp, relay, prodVars, pipeVars, consVars>>

\* The scripts URL of the image put into the config whatever its value.
ScriptURLUnconditional ==
  /\ pc = "scripturl"
  /\ \E m \in ScriptInputs :
       LET r == s2iScriptURL(m)
       IN /\ meta' = r
          /\ IF r.err # NoErr
               THEN /\ Return("scriptURL")
                    /\ cfg' = cfg
               ELSE /\ Goto("env")
                    /\ cfg' = [cfg EXCEPT !.ScriptsURL = r.url]
                    /\ UNCHANGED <<tmpState, s2iignore>>
  /\ UNCHANGED <<platforms, lookups, verbose, funcignore, linkedBefore, defers,
                 calls, tree, order, patched, resp, relay, prodVars, pipeVars, consVars>>

\* Lines 199-217: the scripts URL of the builder image, and the excludes.
ScriptURL ==
  /\ pc = "scripturl"
  /\ \E m \in ScriptInputs :
       LET r == s2iScriptURL(m)
       IN /\ meta' = r
          /\ IF r.err # NoErr
               THEN /\ Return("scriptURL")
                    /\ cfg' = cfg
               ELSE /\ Goto("env")
                    /\ cfg' = IF r.url # SentinelURL
                                THEN [cfg EXCEPT !.ScriptsURL = r.url]
                                ELSE cfg
                    /\ UNCHANGED <<tmpState, s2iignore>>
  /\ UNCHANGED <<platforms, lookups, verbose, funcignore, linkedBefore, defers,
                 calls, tree, order, patched, resp, relay, prodVars, pipeVars, consVars>>

\* Lines 219-228: the build environment, interpolated.
Interpolate ==
  /\ pc = "env"
  /\ meta' = NoMeta
  /\ \E ok \in BOOLEAN :
       IF ok THEN Goto("validate") /\ UNCHANGED <<tmpState, s2iignore>>
             ELSE Return("interpolate")
  /\ UNCHANGED <<platforms, lookups, verbose, funcignore, linkedBefore, defers, cfg,
                 calls, tree, order, patched, resp, relay, prodVars, pipeVars, consVars>>

\* Validation placed after the choice of the engine.
ValidateAfterStrategy ==
  /\ pc = "validate"
  /\ calls' = [calls EXCEPT !.strategy = @ + 1]
  /\ \E ok \in BOOLEAN :
       IF ok THEN Goto("engine") /\ UNCHANGED <<tmpState, s2iignore>>
             ELSE Return("validate")
  /\ UNCHANGED <<platforms, lookups, verbose, funcignore, linkedBefore, defers, cfg,
                 meta, tree, order, patched, resp, relay, prodVars, pipeVars, consVars>>

\* Lines 230-236: validation.ValidateConfig.
Validate ==
  /\ pc = "validate"
  /\ \E ok \in BOOLEAN :
       IF ok THEN Goto("strategy") /\ UNCHANGED <<tmpState, s2iignore>>
             ELSE Return("validate")
  /\ UNCHANGED <<platforms, lookups, verbose, funcignore, linkedBefore, defers, cfg,
                 meta, calls, tree, order, patched, resp, relay, prodVars, pipeVars,
                 consVars>>

\* Lines 238-245: the engine, from b.impl or strategies.Strategy.
Strategy ==
  /\ pc = "strategy"
  /\ \E ok \in BOOLEAN :
       IF ok
         THEN /\ calls' = [calls EXCEPT !.strategy = @ + 1]
              /\ Goto("engine")
              /\ UNCHANGED <<tmpState, s2iignore>>
         ELSE /\ Return("strategy")
              /\ calls' = calls
  /\ UNCHANGED <<platforms, lookups, verbose, funcignore, linkedBefore, defers, cfg,
                 meta, tree, order, patched, resp, relay, prodVars, pipeVars, consVars>>

\* The engine's error logged and the build carried on.
EngineBuildErrorIgnored ==
  /\ pc = "engine"
  /\ \E ok \in BOOLEAN :
       /\ calls' = [calls EXCEPT !.engine = @ + 1,
                                 !.engineErr = IF ok THEN NoErr ELSE "engine"]
       /\ \E t \in Trees : tree' = t /\ order' = WalkOrder(t)
       /\ Goto("patch")
       /\ UNCHANGED <<tmpState, s2iignore>>
  /\ UNCHANGED <<platforms, lookups, verbose, funcignore, linkedBefore, defers, cfg,
                 meta, patched, resp, relay, prodVars, pipeVars, consVars>>

\* Lines 247-257: impl.Build(cfg); the engine fills the build directory.
\* calls.engineErr is the error the engine returned.
EngineBuild ==
  /\ pc = "engine"
  /\ \E ok \in BOOLEAN :
       IF ok
         THEN /\ calls' = [calls EXCEPT !.engine = @ + 1]
              /\ \E t \in Trees : tree' = t /\ order' = WalkOrder(t)
              /\ Goto("patch")
              /\ UNCHANGED <<tmpState, s2iignore>>
         ELSE /\ calls' = [calls EXCEPT !.engine = @ + 1, !.engineErr = "engine"]
              /\ Return(calls'.engineErr)
              /\ UNCHANGED <<tree, order>>
  /\ UNCHANGED <<platforms, lookups, verbose, funcignore, linkedBefore, defers, cfg,
                 meta, patched, resp, relay, prodVars, pipeVars, consVars>>

\* os.Stat asked about a path the engine does not write to.
HasDockerfileElsewhere == FALSE

\* The build directory holds the Dockerfile the engine wrote (os.Stat, 265).
HasDockerfile ==
  /\ tmpState = "exists"
  /\ \E e \in tree : e.path = <<N_Dockerfile>> /\ e.kind = "file"

\* Lines 259-270: the pipe, and the cache mount patched into the Dockerfile.
Patch ==
  /\ pc = "patch"
  /\ IF HasDockerfile
       THEN /\ calls' = [calls EXCEPT !.patch = @ + 1]
            /\ \E ok \in BOOLEAN :
                 IF ok
                   THEN /\ patched' = TRUE
                        /\ Goto("submit")
                        /\ UNCHANGED <<tmpState, s2iignore>>
                   ELSE /\ Return("patch")
                        /\ patched' = patched
       ELSE /\ Goto("submit")
            /\ UNCHANGED <<calls, patched, tmpState, s2iignore>>
  /\ UNCHANGED <<platforms, lookups, verbose, funcignore, linkedBefore, defers, cfg,
                 meta, tree, order, resp, relay, prodVars, pipeVars, consVars>>

\* Lines 273-352: the archive goroutine is started and client.ImageBuild is
\* called with the read side of the pipe. Nothing below reads platforms, the
\* platform lookups or the fields of cfg kept here, so they leave the state.
Submit ==
  /\ pc = "submit"
  /\ ppc' = "visit"
  /\ calls' = [calls EXCEPT !.walk = @ + 1, !.imageBuild = @ + 1]
  /\ Goto("imagebuild")
  /\ platforms' = 0
  /\ lookups' = 0
  /\ cfg' = NoCfg
  /\ UNCHANGED <<verbose, funcignore, s2iignore, linkedBefore,
                 defers, tmpState, meta, tree, order, patched, resp, relay, wi, wq,
                 twPad, twErr, walkErr, produced, pipeVars, consVars>>

\* The progress streams a backend may answer with: events, then a clean end
\* or a stream that breaks.
Streams ==
  {[events |-> ev, end |-> e] :
     ev \in UNION {[1..n -> {"status", "error"}] : n \in 0..MaxEvents},
     e \in {"eof", "transport"}}

\* Lines 352-356: client.ImageBuild returns, at any time after the call; with
\* an error once its context is cancelled.
ImageBuildReturn ==
  /\ pc = "imagebuild"
  /\ \E ok \in (IF cancelled THEN {FALSE} ELSE BOOLEAN) :
       IF ok THEN Goto("relay") /\ UNCHANGED <<tmpState, s2iignore>>
             ELSE Return("imageBuild")
  /\ UNCHANGED <<platforms, lookups, verbose, funcignore, linkedBefore, defers, cfg,
                 meta, calls, tree, order, patched, resp, relay, prodVars, pipeVars,
                 consVars>>

\* jsonmessage.DisplayJSONMessagesStream from event i on: each event is
\* decoded and displayed; an event that carries an error ends the relay with
\* that error, a stream that breaks ends it with the decoder's error, and the
\* end of the stream ends it with nil.
RECURSIVE DisplayJSONMessagesStream(_, _, _)
DisplayJSONMessagesStream(st, i, shown) ==
  IF i > Len(st.events)
    THEN [read |-> Len(st.events), shown |-> shown, sawEnd |-> TRUE,
          err |-> IF st.end = "eof" THEN NoErr ELSE "transport"]
  ELSE IF st.events[i] = "error"
    THEN [read |-> i, shown |-> shown, sawEnd |-> FALSE, err |-> "progress"]
  ELSE DisplayJSONMessagesStream(st, i + 1, shown + 1)

\* A relay that is skipped when the builder is not verbose.
RelayOnlyVerbose(st, v) ==
  IF v THEN DisplayJSONMessagesStream(st, 1, 0)
  ELSE [read |-> 0, shown |-> 0, sawEnd |-> FALSE, err |-> NoErr]

\* Lines 358-370: out is os.Stderr when verbose and io.Discard otherwise; the
\* stream is relayed to out either way. shown counts what reaches os.Stderr.
RelayStream(st, v) ==
  LET r == DisplayJSONMessagesStream(st, 1, 0)
  IN [r EXCEPT !.shown = IF v THEN r.shown ELSE 0]

\* Lines 356-371: the progress stream of the response, whatever the backend
\* sends on it, is relayed and Build returns.
Relay ==
  /\ pc = "relay"
  /\ \E st \in Streams :
       LET r == RelayStream(st, verbose)
       IN /\ resp' = st
          /\ relay' = [read |-> r.read, shown |-> r.shown, sawEnd |-> r.sawEnd]
          /\ Return(r.err)
  /\ UNCHANGED <<platforms, lookups, verbose, funcignore, linkedBefore, defers, cfg,
                 meta, calls, tree, order, patched, prodVars, pipeVars, consVars>>

\* The caller calls Build again on the same function root. The goroutine, the
\* pipe and the directory of the call before belong to that call alone and are
\* followed no further.
NextRun ==
  /\ pc = "returned"
  /\ linkedBefore' = (linkedBefore \/ calls.link > 0)
  /\ pc' = "idle"
  /\ ret' = "running"
  /\ platforms' = 0
  /\ lookups' = 0
  /\ verbose' = FALSE
  /\ defers' = [link |-> FALSE, tmp |-> FALSE]
  /\ tmpState' = "none"
  /\ cfg' = NoCfg
  /\ meta' = NoMeta
  /\ calls' = NoCalls
  /\ tree' = {}
  /\ order' = <<>>
  /\ patched' = FALSE
  /\ resp' = NoResp
  /\ relay' = NoRelay
  /\ ppc' = "idle"
  /\ wi' = 1
  /\ wq' = <<>>
  /\ twPad' = FALSE
  /\ twErr' = FALSE
  /\ walkErr' = NoErr
  /\ produced' = <<>>
  /\ pending' = <<>>
  /\ left' = 0
  /\ werr' = "none"
  /\ rclosed' = FALSE
  /\ received' = <<>>
  /\ cres' = "reading"
  /\ cancelled' = FALSE
  /\ UNCHANGED <<funcignore, s2iignore>>

\* ------------------------------------------------------------------------
\* The archive goroutine
\* ------------------------------------------------------------------------

\* One write of the tar writer to the pipe: a header block, a chunk of a
\* file's content, the padding after a file, or the end-of-archive trailer.
Unit(k, p, lnk, n) == [k |-> k, p |-> p, lnk |-> lnk, n |-> n]

\* const up = ".." + string(os.PathSeparator)
Up == <<".", ".", "/">>

\* Lines 294-309: the link name of the header for the target l of a symbolic
\* link. An absolute target is made relative to tmp and refused when that
\* leaves tmp; a relative target is taken as it is.
LinkName(l) ==
  IF IsAbs(l)
    THEN LET r == Rel(TmpDir, l)
         IN IF HasPrefix(r, Up) \/ r = DotDot
              THEN [err |-> "escape", name |-> <<>>]
              ELSE [err |-> NoErr, name |-> r]
    ELSE [err |-> NoErr, name |-> l]

\* Lines 275-325: the walk callback for entry e up to tw.WriteHeader; ioErr is
\* the error filepath.Walk hands in. hdr is the header to write, if any.
WalkFn(e, ioErr) ==
  IF ioErr THEN [err |-> "io", hdr |-> <<>>]
  ELSE LET p == RelName(e)
       IN IF p = Dot THEN [err |-> NoErr, hdr |-> <<>>]
          ELSE IF ExcludeMatch(p) THEN [err |-> NoErr, hdr |-> <<>>]
          ELSE LET l == IF e.kind = "link" THEN LinkName(e.lnk)
                        ELSE [err |-> NoErr, name |-> <<>>]
               IN IF l.err # NoErr THEN [err |-> l.err, hdr |-> <<>>]
                  ELSE [err |-> NoErr, hdr |-> <<Unit("hdr", p, l.name, 0)>>]

\* The padding tw.Flush writes before the next header or the trailer.
PadWrites == IF twPad THEN <<Unit("pad", <<>>, <<>>, 0)>> ELSE <<>>

\* filepath.Walk calls the callback for the next entry. Once the directory is
\* removed every lstat fails; before that any one may.
Visit ==
  /\ ppc = "visit"
  /\ wi <= Len(order)
  /\ \E ioErr \in (IF tmpState = "removed" THEN {TRUE} ELSE BOOLEAN) :
       LET e == order[wi]
           r == WalkFn(e, ioErr)
       IN IF r.err # NoErr
            THEN /\ walkErr' = r.err
                 /\ ppc' = "twclose"
                 /\ UNCHANGED <<wi, wq, twPad>>
            ELSE IF r.hdr = <<>>
              THEN /\ wi' = wi + 1
                   /\ UNCHANGED <<ppc, wq, twPad, walkErr>>
              ELSE /\ wq' = PadWrites \o r.hdr
                   /\ twPad' = FALSE
                   /\ ppc' = "hdr"
                   /\ UNCHANGED <<wi, walkErr>>
  /\ UNCHANGED <<mainVars, twErr, produced, pipeVars, consVars>>

\* filepath.Walk has visited every entry and returns nil.
WalkEnd ==
  /\ ppc = "visit"
  /\ wi > Len(order)
  /\ ppc' = "twclose"
  /\ UNCHANGED <<mainVars, wi, wq, twPad, twErr, walkErr, produced, pipeVars,
                 consVars>>

\* Lines 326-338: the content of a regular file, opened and copied chunk by
\* chunk. A file that cannot be opened leaves the header without its content,
\* which tw.Close reports instead of writing the trailer.
OpenCopy ==
  /\ ppc = "open"
  /\ \E ioErr \in (IF tmpState = "removed" THEN {TRUE} ELSE BOOLEAN) :
       LET e == order[wi]
       IN IF ioErr
            THEN /\ walkErr' = "open"
                 /\ twErr' = (e.chunks > 0)
                 /\ ppc' = "twclose"
                 /\ UNCHANGED <<wi, wq, twPad>>
            ELSE IF e.chunks = 0
              THEN /\ wi' = wi + 1
                   /\ ppc' = "visit"
                   /\ UNCHANGED <<wq, twPad, twErr, walkErr>>
              ELSE /\ wq' = [n \in 1..e.chunks |-> Unit("data", RelName(e), <<>>, n)]
                   /\ ppc' = "data"
                   /\ UNCHANGED <<wi, twPad, twErr, walkErr>>
  /\ UNCHANGED <<mainVars, produced, pipeVars, consVars>>

\* A failed write whose error the callback drops: the walk goes on with the
\* next entry.
WriteFailedWalkGoesOn ==
  /\ twErr' = TRUE
  /\ wq' = <<>>
  /\ ppc' = IF ppc = "trailer" THEN "pwclose" ELSE "visit"
  /\ wi' = IF ppc = "trailer" THEN wi ELSE wi + 1
  /\ UNCHANGED <<twPad, walkErr>>

\* A write to the pipe failed (the read side is closed): the tar writer keeps
\* the error; during the walk the callback returns it and the walk ends.
WriteFailed ==
  /\ twErr' = TRUE
  /\ wq' = <<>>
  /\ IF ppc = "trailer"
       THEN ppc' = "pwclose" /\ walkErr' = walkErr
       ELSE ppc' = "twclose" /\ walkErr' = "write"
  /\ UNCHANGED <<wi, twPad>>

\* pw.Write is entered with the next write of the tar writer: the pipe holds
\* it until the reader has taken it, or fails at once when the read side is
\* closed.
PipeWrite ==
  /\ ppc \in {"hdr", "data", "trailer"}
  /\ wq # <<>>
  /\ pending = <<>>
  /\ IF rclosed
       THEN /\ WriteFailed
            /\ UNCHANGED <<produced, pipeVars>>
       ELSE /\ pending' = <<Head(wq)>>
            /\ left' = BytesPerWrite
            /\ produced' = Append(produced, Head(wq))
            /\ UNCHANGED <<ppc, wi, wq, twPad, twErr, walkErr, werr, rclosed>>
  /\ UNCHANGED <<mainVars, consVars>>

\* A pipe with a buffer: pw.Write returns as soon as the pipe has taken the
\* bytes, read or not.
PipeWriteReturnBuffered ==
  /\ pending # <<>>
  /\ pending' = <<>>
  /\ left' = 0
  /\ IF Len(wq) > 1
       THEN /\ wq' = Tail(wq)
            /\ UNCHANGED <<ppc, wi, twPad, twErr, walkErr>>
       ELSE /\ wq' = <<>>
            /\ twErr' = twErr
            /\ walkErr' = walkErr
            /\ CASE ppc = "hdr" ->
                      IF order[wi].kind = "file"
                        THEN ppc' = "open" /\ UNCHANGED <<wi, twPad>>
                        ELSE ppc' = "visit" /\ wi' = wi + 1 /\ twPad' = twPad
                 [] ppc = "data" ->
                      ppc' = "visit" /\ wi' = wi + 1 /\ twPad' = TRUE
                 [] OTHER ->
                      ppc' = "pwclose" /\ UNCHANGED <<wi, twPad>>
  /\ UNCHANGED <<mainVars, produced, werr, rclosed, consVars>>

\* pw.Write returns: with success once every byte was read, with an error
\* when the read side was closed before that.
PipeWriteReturn ==
  /\ pending # <<>>
  /\ left = 0 \/ rclosed
  /\ pending' = <<>>
  /\ left' = 0
  /\ IF left = 0
       THEN IF Len(wq) > 1
              THEN /\ wq' = Tail(wq)
                   /\ UNCHANGED <<ppc, wi, twPad, twErr, walkErr>>
              ELSE /\ wq' = <<>>
                   /\ twErr' = twErr
                   /\ walkErr' = walkErr
                   /\ CASE ppc = "hdr" ->
                             IF order[wi].kind = "file"
                               THEN ppc' = "open" /\ UNCHANGED <<wi, twPad>>
                               ELSE ppc' = "visit" /\ wi' = wi + 1 /\ twPad' = twPad
                        [] ppc = "data" ->
                             ppc' = "visit" /\ wi' = wi + 1 /\ twPad' = TRUE
                        [] OTHER ->
                             ppc' = "pwclose" /\ UNCHANGED <<wi, twPad>>
       ELSE WriteFailed
  /\ UNCHANGED <<mainVars, produced, werr, rclosed, consVars>>

\* Line 342: tw.Close writes the padding and the trailer, unless the writer
\* holds an error.
TwClose ==
  /\ ppc = "twclose"
  /\ IF twErr
       THEN ppc' = "pwclose" /\ UNCHANGED <<wq, twPad>>
       ELSE /\ wq' = PadWrites \o <<Unit("trailer", <<>>, <<>>, 0)>>
            /\ twPad' = FALSE
            /\ ppc' = "trailer"
  /\ UNCHANGED <<mainVars, wi, twErr, walkErr, produced, pipeVars, consVars>>

\* pw.CloseWithError(err) closing the write side with a nil error whatever
\* the walk returned.
CloseErrorDropped(err) == "EOF"

\* pw.CloseWithError(err): a nil error stands for io.EOF.
CloseError(err) == IF err = NoErr THEN "EOF" ELSE err

\* Line 343: pw.CloseWithError(err) with the result of the walk.
PwClose ==
  /\ ppc = "pwclose"
  /\ werr' = CloseError(walkErr)
  /\ ppc' = "done"
  /\ UNCHANGED <<mainVars, wi, wq, twPad, twErr, walkErr, produced, pending,
                 left, rclosed, consVars>>

\* ------------------------------------------------------------------------
\* The backend reading the archive
\* ------------------------------------------------------------------------

\* The backend reads k bytes of the write the pipe holds.
BackendRead ==
  /\ calls.imageBuild > 0
  /\ cres = "reading"
  /\ pending # <<>>
  /\ left > 0
  /\ \E k \in 1..left :
       /\ left' = left - k
       /\ received' = received \o
            [i \in 1..k |-> [u |-> pending[1], b |-> BytesPerWrite - left + i]]
  /\ UNCHANGED <<mainVars, prodVars, pending, werr, rclosed, cres, cancelled>>

\* The backend reads from a pipe whose write side is closed: it gets the
\* error the pipe was closed with, io.EOF for a clean end.
BackendReadEnd ==
  /\ calls.imageBuild > 0
  /\ cres = "reading"
  /\ werr # "none"
  /\ pending = <<>>
  /\ cres' = werr
  /\ UNCHANGED <<mainVars, prodVars, pipeVars, received, cancelled>>

\* The backend closes the read side before the end of the archive.
BackendClose ==
  /\ calls.imageBuild > 0
  /\ cres = "reading"
  /\ rclosed' = TRUE
  /\ cres' = "closed"
  /\ UNCHANGED <<mainVars, prodVars, pending, left, werr, received, cancelled>>

\* The caller cancels ctx while the archive is on its way to the backend.
\* Build hands ctx to ImageBuild (line 352) and to nothing in the goroutine:
\* the backend may close the read side then, or go on reading for a while. A
\* cancellation before that shows as an error of the call that was handed ctx.
Cancel ==
  /\ calls.imageBuild > 0
  /\ ~cancelled
  /\ cancelled' = TRUE
  /\ UNCHANGED <<mainVars, prodVars, pipeVars, received, cres>>

\* ------------------------------------------------------------------------
\* Specifications
\* ------------------------------------------------------------------------

Next ==
  \/ BuildEntry
  \/ NewClient
  \/ LinkIgnore
  \/ MkdirTemp
  \/ Configure
  \/ ScriptURL
  \/ Interpolate
  \/ Validate
  \/ Strategy
  \/ EngineBuild
  \/ Patch
  \/ Submit
  \/ ImageBuildReturn
  \/ Relay
  \/ NextRun
  \/ Visit
  \/ WalkEnd
  \/ OpenCopy
  \/ PipeWrite
  \/ PipeWriteReturn
  \/ TwClose
  \/ PwClose
  \/ BackendRead
  \/ BackendReadEnd
  \/ BackendClose
  \/ Cancel

Spec == Init /\ [][Next]_vars

\* One call of Build, with what it leaves running.
NextCall ==
  \/ BuildEntry
  \/ NewClient
  \/ LinkIgnore
  \/ MkdirTemp
  \/ Configure
  \/ ScriptURL
  \/ Interpolate
  \/ Validate
  \/ Strategy
  \/ EngineBuild
  \/ Patch
  \/ Submit
  \/ ImageBuildReturn
  \/ Relay
  \/ Visit
  \/ WalkEnd
  \/ OpenCopy
  \/ PipeWrite
  \/ PipeWriteReturn
  \/ TwClose
  \/ PwClose
  \/ BackendRead
  \/ BackendReadEnd
  \/ BackendClose
  \/ Cancel

\* A step of the archive goroutine.
Producer ==
  \/ Visit
  \/ WalkEnd
  \/ OpenCopy
  \/ PipeWrite
  \/ PipeWriteReturn
  \/ TwClose
  \/ PwClose

\* A read of the backend from the pipe.
Reader == BackendRead \/ BackendReadEnd

\* One call of Build in which the archive goroutine is scheduled whenever it
\* can take a step (the Go scheduler), and the backend goes on reading the
\* archive for as long as it has not closed the read side.
FairSpec ==
  /\ Init
  /\ [][NextCall]_vars
  /\ WF_vars(Producer)
  /\ WF_vars(Reader)

\* One call of Build in which the archive goroutine is scheduled whenever it
\* can take a step, and the backend, which gets the pipe as an io.Reader
\* (line 64), reads from it, closes it or leaves it alone as it likes.
GoroutineFairSpec ==
  /\ Init
  /\ [][NextCall]_vars
  /\ WF_vars(Producer)

\* ------------------------------------------------------------------------
\* Properties
\* ------------------------------------------------------------------------

C4_CleanupOnEveryExit ==
  /\ pc = "returned" /\ calls.link > 0 => s2iignore = "absent"
  /\ pc = "returned" /\ defers.tmp => tmpState = "removed"
  /\ pc \in {"returned", "idle"} => s2iignore # "link" /\ tmpState # "exists"

\* C4 witness: a second call is about to start after a call that created the
\* link, and no link is left.
C4_Witness ==
  pc = "idle" /\ linkedBefore /\ funcignore /\ s2iignore = "absent"

\* C5: when the engine's Build returned an error, Build has returned that
\* error: no patch was applied, the archive goroutine was not started and
\* ImageBuild was not called.
C5_EngineErrorAborts ==
  calls.engineErr # NoErr =>
    /\ pc = "returned"
    /\ ret = calls.engineErr
    /\ calls.patch = 0
    /\ ~patched
    /\ calls.walk = 0
    /\ ppc = "idle"
    /\ calls.imageBuild = 0

\* C5 witness: the engine was called and failed.
C5_Witness == calls.engine = 1 /\ calls.engineErr # NoErr /\ pc = "returned"

ConfigErrors == {"platformImage", "singlePlatform", "interpolate", "validate"}

\* C6: when Build returned a configuration error (no platform image, several
\* platforms, interpolation, validation), no engine was chosen, the engine's
\* Build was not called and ImageBuild was not called.
C6_ConfigErrorsBeforeEngine ==
  ret \in ConfigErrors =>
    /\ pc = "returned"
    /\ calls.strategy = 0
    /\ calls.engine = 0
    /\ calls.imageBuild = 0

\* C6 witness: validation failed after every earlier step succeeded.
C6_Witness == pc = "returned" /\ ret = "validate" /\ tmpState = "removed"

\* C7: s2iScriptURL enters the registry path exactly when the local inspection
\* failed with "not found"; any other inspection error, and any parse, fetch
\* or config error on the registry path, gives a non-nil error, and Build then
\* returns "cannot get s2i script url" with no engine chosen or called and no
\* ImageBuild call.
C7_FallbackOnlyOnNotFound ==
  meta.inspect # "none" =>
    /\ meta.fellBack <=> meta.inspect = "notfound"
    /\ meta.fetched => meta.inspect = "notfound" /\ meta.parse = "ok"
    /\ meta.inspect = "error" => meta.err # NoErr
    /\ "error" \in {meta.parse, meta.fetch, meta.configFile} => meta.err # NoErr
    /\ meta.err # NoErr =>
         /\ pc = "returned"
         /\ ret = "scriptURL"
         /\ calls.strategy = 0
         /\ calls.engine = 0
         /\ calls.imageBuild = 0

\* C7 witness: the image is not in the daemon and the registry fetch fails.
C7_Witness ==
  /\ meta.inspect = "notfound"
  /\ meta.fetch = "error"
  /\ meta.fellBack
  /\ ret = "scriptURL"

\* The label is absent on the path s2iScriptURL took.
LabelAbsent ==
  \/ /\ meta.inspect = "ok"
     /\ meta.config = Absent
     /\ meta.containerConfig = Absent
  \/ /\ meta.inspect = "notfound"
     /\ meta.configFile = "ok"
     /\ meta.remote = Absent

\* C8: with the label absent, s2iScriptURL returns the empty string and a nil
\* error, both for an image found locally and for one fetched from the
\* registry, and Build goes on.
C8_AbsentLabelIsNotAnError ==
  LabelAbsent => meta.url = "" /\ meta.err = NoErr /\ pc = "env"

\* C8 witness: the registry path succeeded and the fetched config has no label.
C8_Witness ==
  /\ meta.inspect = "notfound"
  /\ meta.fellBack
  /\ meta.fetched
  /\ meta.remote = Absent
  /\ meta.err = NoErr
  /\ pc = "env"

\* The names of the tar headers handed to the pipe so far.
HeaderNames ==
  {produced[i].p : i \in {j \in DOMAIN produced : produced[j].k = "hdr"}}

P_git_config == N_git \o <<"/">> \o N_config
P_node_modules_xjs == N_node_modules \o <<"/">> \o N_xjs

\* C3: no tar header is named "." (the walk root) and none has a name the
\* exclusion pattern matches; nothing below an excluded directory of the build
\* directory, such as .git/config or node_modules/x.js, has a header.
C3_NoRootNoExcludedHeader ==
  \A p \in HeaderNames :
    /\ p # Dot
    /\ ~ExcludeMatch(p)
    /\ p \notin {P_git_config, P_node_modules_xjs}
    /\ \A d \in tree :
         d.kind = "dir" /\ d.path # <<>> /\ ExcludeMatch(RelName(d))
           => ~HasPrefix(p, RelName(d) \o <<"/">>)

\* C3 witness: the walk went through a directory that holds .git and
\* node_modules with their files, ended without error and wrote headers.
C3_Witness ==
  /\ ppc = "done"
  /\ walkErr = NoErr
  /\ wi > Len(order)
  /\ File(<<N_git, N_config>>, 1) \in tree
  /\ File(<<N_node_modules, N_xjs>>, 1) \in tree
  /\ HeaderNames # {}

\* The directory that holds entry e, as an absolute path.
ParentPath(e) ==
  IF Len(e.path) <= 1 THEN TmpDir
  ELSE TmpDir \o <<"/">> \o Join[SubSeq(e.path, 1, Len(e.path) - 1)]

\* The target of link e relative to the build root: an absolute target as
\* filepath.Rel gives it, a relative one resolved from the link's directory.
TargetFromRoot(e) ==
  IF IsAbs(e.lnk) THEN Rel(TmpDir, e.lnk)
  ELSE Rel(TmpDir, ParentPath(e) \o <<"/">> \o e.lnk)

\* The target of link e begins with a parent-directory traversal.
Escapes(e) ==
  /\ e.kind = "link"
  /\ LET r == TargetFromRoot(e) IN HasPrefix(r, Up) \/ r = DotDot

\* The callback has dealt with the i-th entry of the walk, which it was handed
\* without an error of the walk itself.
Processed(i) ==
  \/ wi > i
  \/ wi = i /\ ppc \notin {"idle", "visit"} /\ walkErr # "io"

\* C2 as stated: once the callback has dealt with a link that is not excluded
\* and whose target, relative to the build root, begins with "..", be the
\* target stored absolute or relative, the walk has failed with the path-escape
\* error, no header carries the link's name, and the reader of the pipe never
\* sees a clean end of stream.
C2_EscapingLinksRejected ==
  \A i \in 1..Len(order) :
    LET e == order[i]
    IN Escapes(e) /\ ~ExcludeMatch(RelName(e)) /\ Processed(i)
         => /\ walkErr = "escape"
            /\ RelName(e) \notin HeaderNames
            /\ cres # "EOF"

\* The bytes of a sequence of writes, in order.
RECURSIVE Bytes(_)
Bytes(ws) ==
  IF ws = <<>> THEN <<>>
  ELSE [b \in 1..BytesPerWrite |-> [u |-> Head(ws), b |-> b]] \o Bytes(Tail(ws))

\* What the reader of the pipe got at the end is what the walk returned, after
\* every byte written: an error of the walk as that error, never as a clean
\* end; no error as a clean end of stream.
C9_OutcomeIsTheWalks ==
  cres \notin {"reading", "closed"} =>
    /\ ppc = "done"
    /\ received = Bytes(produced)
    /\ IF walkErr = NoErr THEN cres = "EOF" ELSE cres = walkErr

\* C9: the reader of the pipe gets the outcome of the walk, once, after all
\* the bytes written before it: the walk's error when the walk failed, a clean
\* end of stream after every written byte when it did not; and a reader that
\* does not close the pipe does get it in the end.
C9_WalkOutcomeReachesReader ==
  /\ []C9_OutcomeIsTheWalks
  /\ [][cres # "reading" => cres' = cres /\ received' = received]_vars
  /\ (calls.walk > 0 ~> cres # "reading")

\* C9 witness: the walk failed on a link that leaves the build directory and
\* the reader got that error after the trailer.
C9_Witness ==
  /\ cres = "escape"
  /\ walkErr = "escape"
  /\ produced # <<>>
  /\ received = Bytes(produced)

\* The index of the first event of the stream that carries an error, 0 if none.
FirstError(ev) ==
  IF \E i \in DOMAIN ev : ev[i] = "error"
    THEN CHOOSE i \in DOMAIN ev : ev[i] = "error" /\ \A j \in 1..(i - 1) : ev[j] # "error"
    ELSE 0

\* Build got a response from ImageBuild and relayed its stream.
Relayed == pc = "returned" /\ resp # NoResp

ScriptsOverride(u) == IF u # "" /\ u # SentinelURL THEN u ELSE ""

\* C11: when s2iScriptURL has returned without error, cfg.ScriptsURL is the
\* discovered URL if that URL is not empty and is not the sentinel
\* "image:///usr/libexec/s2i", and is empty otherwise; from there to the call
\* of the engine's Build the config is not changed.
C11_ScriptsURLOnlyWhenNotSentinel ==
  /\ [](pc = "env" => cfg.ScriptsURL = ScriptsOverride(meta.url))
  /\ [][(pc \in {"env", "validate", "strategy", "engine"}) => (cfg' = cfg)]_vars

\* C11 witness: the label of the image is the sentinel and the override is
\* left empty.
C11_Witness ==
  /\ pc = "env"
  /\ meta.url = SentinelURL
  /\ cfg.ScriptsURL = ""

\* C12 as stated: once the context is cancelled the walk starts no further
\* entry, that is, the callback prepares no further header.
C12_NoEntryAfterCancel ==
  [][cancelled /\ ppc = "visit" => ppc' # "hdr"]_vars

\* C12: the walk does not look at the context. What stops it is the read side
\* of the pipe being closed, as a cancelled ImageBuild does: from then on no
\* header and no content reaches the pipe, a write already taken in full by
\* the reader may return, and the next write the callback attempts fails and
\* ends the walk with that error. (A step that leaves the read side closed is
\* a step of the same call of Build.)
C12_WalkStopsAtFirstWriteAfterClose ==
  /\ [][rclosed /\ rclosed' => produced' = produced]_vars
  /\ [][rclosed /\ rclosed' /\ pending = <<>> /\ ppc \in {"hdr", "data"}
          /\ ppc' # ppc
          => ppc' = "twclose" /\ walkErr' = "write"]_vars

\* C12 witness: the context was cancelled, the backend closed the read side,
\* and the goroutine ended on a failed write before the walk reached its last
\* entry.
C12_Witness ==
  /\ cancelled
  /\ rclosed
  /\ ppc = "done"
  /\ walkErr = "write"
  /\ wi < Len(order)

\* C13: in a call with no platform requested, the config the engine gets
\* carries the reference BuilderImage returned as its builder image and the
\* default pull policies, and docker.GetPlatformImage was not called.
C13_ZeroPlatformsImageUnchanged ==
  platforms = 0 /\ pc = "engine" =>
    /\ cfg.BuilderImage = "builder-image"
    /\ cfg.PullPolicies = "default"
    /\ lookups = 0

\* C13 witness: a call without platforms is about to call the engine's Build.
C13_Witness ==
  /\ platforms = 0
  /\ pc = "engine"
  /\ cfg.BuilderImage = "builder-image"
  /\ calls.strategy = 1

\* C14: Build makes the .s2iignore link only at lines 157-169 and only when
\* .funcignore exists and .s2iignore does not; a .s2iignore that is there when
\* Build is entered is there, as it was, after every step and so at every
\* return, and without .funcignore no link is ever made.
C14_ExistingIgnoreFileKept ==
  /\ [][s2iignore = "file" => s2iignore' = "file"]_vars
  /\ [][s2iignore # "link" /\ s2iignore' = "link"
          => funcignore /\ s2iignore = "absent" /\ pc = "link"]_vars
  /\ [](calls.link > 0 => funcignore /\ s2iignore # "file")

\* C14 witness: .funcignore and .s2iignore both existed, the call went past
\* the link step as far as the relay and returned; the file is still there and
\* no link was made.
C14_Witness ==
  /\ pc = "returned"
  /\ funcignore
  /\ s2iignore = "file"
  /\ calls.link = 0
  /\ calls.imageBuild = 1
  /\ ret = "progress"

\* The engine left an instructions file in the build directory.
DockerfileWritten == File(<<N_Dockerfile>>, 1) \in tree \/ File(<<N_Dockerfile>>, 2) \in tree

\* C15: patchDockerfile is called exactly when the engine's Build succeeded
\* and left a Dockerfile; once the goroutine runs, a Dockerfile that exists is
\* patched, so no header of an unpatched Dockerfile is ever written; without a
\* Dockerfile Build goes on to the walk with no error of the patch; and when the
\* patch fails Build has returned that error, no goroutine was started and
\* ImageBuild was not called.
C15_PatchBeforeArchive ==
  /\ calls.patch > 0 =>
        calls.engine = 1 /\ calls.engineErr = NoErr /\ DockerfileWritten
  /\ pc \in {"submit", "imagebuild", "relay"} \/ calls.walk > 0 =>
        /\ calls.engine = 1 /\ calls.engineErr = NoErr
        /\ patched <=> DockerfileWritten
        /\ calls.patch = (IF DockerfileWritten THEN 1 ELSE 0)
        /\ ret # "patch"
  /\ N_Dockerfile \in HeaderNames => patched
  /\ ret = "patch" =>
        /\ pc = "returned"
        /\ ~patched
        /\ calls.walk = 0
        /\ ppc = "idle"
        /\ produced = <<>>
        /\ calls.imageBuild = 0

\* C15 witness: the Dockerfile was patched and then went into the archive,
\* which the backend read to its end.
C15_Witness ==
  /\ patched
  /\ N_Dockerfile \in HeaderNames
  /\ cres = "EOF"

\* C16: the pipe buffers nothing. At most one write is outstanding; while the
\* reader has not closed its side, the bytes written and not yet read are the
\* rest of that one write; and the goroutine begins a write only when every
\* byte of the writes before it has been read.
C16_NoWriteBeforePreviousRead ==
  /\ [](Len(pending) <= 1)
  /\ [](pending = <<>> => left = 0)
  /\ [](~rclosed =>
          Len(received) + left = BytesPerWrite * Len(produced))
  /\ [][Len(produced') > Len(produced) => received = Bytes(produced)]_vars

\* C16 witness: the second write of the goroutine is outstanding and the
\* backend has read the first and a part of the second.
C16_Witness ==
  /\ Len(produced) = 2
  /\ pending = <<produced[2]>>
  /\ left = 1
  /\ Len(received) = 2 * BytesPerWrite - 1

\* Path a comes before path b in a lexical walk: a directory before what it
\* holds, the entries of one directory by name.
RECURSIVE WalksBefore(_, _)
WalksBefore(a, b) ==
  IF a = <<>> THEN b # <<>>
  ELSE IF b = <<>> THEN FALSE
  ELSE IF Head(a) = Head(b) THEN WalksBefore(Tail(a), Tail(b))
  ELSE StrLess(Head(a), Head(b))

\* The positions of the headers among the writes made so far.
HeaderPositions == {j \in DOMAIN produced : produced[j].k = "hdr"}

\* C17: what the backend has read is, byte for byte and in order, the
\* beginning of what the goroutine wrote; the headers were written in the
\* order of a lexical walk; and each piece of a file's content comes directly
\* after that file's header or after the piece before it, with nothing of
\* another entry in between.
C17_ArchiveInWalkOrder ==
  /\ Len(received) <= Len(Bytes(produced))
  /\ received = SubSeq(Bytes(produced), 1, Len(received))
  /\ \A i \in HeaderPositions : \A j \in HeaderPositions :
        i < j => WalksBefore(Split(produced[i].p), Split(produced[j].p))
  /\ \A j \in DOMAIN produced :
        produced[j].k = "data" =>
          /\ j > 1
          /\ produced[j - 1].p = produced[j].p
          /\ IF produced[j].n = 1
               THEN produced[j - 1].k = "hdr"
               ELSE produced[j - 1].k = "data" /\ produced[j - 1].n = produced[j].n - 1

\* C17 witness: the backend read to its end an archive with a directory, a
\* file in it, and a file whose content took two writes.
C17_Witness ==
  /\ cres = "EOF"
  /\ received = Bytes(produced)
  /\ Cardinality(HeaderPositions) >= 3
  /\ \E j \in DOMAIN produced : produced[j].k = "data" /\ produced[j].n = 2

\* The names the exclusion is meant for.
ExcludedNames == {L_git, L_env, L_func, L_node_modules}

\* C18 as stated: an entry none of whose path segments is .git, .env, .func or
\* node_modules is not excluded: once the callback is through with it, its
\* header is in the archive.
C18_OnlyWholeSegmentsExcluded ==
  \A i \in 2..Len(order) :
    /\ wi > i
    /\ \A k \in DOMAIN order[i].path : order[i].path[k] \notin ExcludedNames
    => RelName(order[i]) \in HeaderNames

\* C19 as stated: once started, the archive goroutine gets to the end of its
\* body, past pw.CloseWithError, whatever ImageBuild and the backend do.
C19_GoroutineTerminates == (ppc # "idle") ~> (ppc = "done")

\* C20 as stated: while the walk over the build directory is in progress the
\* directory is not removed.
C20_TmpOutlivesWalk ==
  tmpState = "removed" => ppc \notin {"visit", "hdr", "open", "data"}

====
